---------------------------- MODULE Spec2Model ----------------------------
(***************************************************************************)
(* SafetyBarrier (navsim/agents/goalflow/safety_barrier.py): compute_sdf   *)
(* turns BEV semantic logits into a signed distance field, get_gradients   *)
(* samples the field and its Sobel gradient at trajectory points.          *)
(*                                                                         *)
(* Fixed-point units (all values are integers):                            *)
(*   logits            integers, sigmoid in permille                       *)
(*   threshold         permille                                            *)
(*   pixel_size        quarter metres per cell (1 = 0.25 m, 2 = 0.5 m)     *)
(*   distances         milli-cells (1000 = one cell)                       *)
(*   sdf, ego_radius   1/4000 m  (milli-cell * quarter metre)              *)
(*   trajectories      1/8 m                                               *)
(*   sample position   cells / SampleDen(pixel_size)                       *)
(*   h_val             sdf units / SampleDen^2                             *)
(*   h_grad            sdf units per metre / (8 * SampleDen^2)             *)
(***************************************************************************)
EXTENDS Integers, Sequences, FiniteSets, TLC

VARIABLES
    pixel_size,   \* self.pixel_size
    ego_radius,   \* self.ego_radius
    threshold,    \* compute_sdf's threshold argument
    H, W,         \* spatial size of the grids
    semantics,    \* [B, Classes, H, W] logits: scene -> channel -> cell -> logit
    trajs,        \* [B, N, 2] trajectory points: scene -> sequence of <<forward, lateral>>
    sdf,          \* result of compute_sdf: scene -> cell -> value (<<>> before the call)
    delta,        \* extra margin of a second barrier built with ego_radius + delta
    sdf_wide,     \* result of that second barrier's compute_sdf
    sdf_single,   \* results of the B = 1 calls, scene by scene
    out_single,   \* results of get_gradients on the B = 1 calls
    out,          \* what get_gradients computed and returned (<<>> before the call)
    locals,       \* compute_sdf's masks and raw field in its last call (<<>> before)
    pc            \* "input", "sdf", "done", "error", "single"

vars == <<pixel_size, ego_radius, threshold, H, W, semantics, trajs, sdf, delta,
          sdf_wide, sdf_single, out_single, out, locals, pc>>

-----------------------------------------------------------------------------
(* Grids *)

Cells(h, w) == (0 .. h - 1) \X (0 .. w - 1)

Clamp(x, lo, hi) == IF x < lo THEN lo ELSE IF x > hi THEN hi ELSE x

Max(a, b) == IF a > b THEN a ELSE b

Abs(x) == IF x < 0 THEN -x ELSE x

(* f itself; the comparison makes TLC tabulate f once instead of           *)
(* re-evaluating its defining expression at every application.             *)
Eval(f) == IF f = f THEN f ELSE f

-----------------------------------------------------------------------------
(* torch.sigmoid, in permille, on the integer logits the model draws. *)
Sigmoid(x) ==
    CASE x <= -3 -> 47
      [] x = -2 -> 119
      [] x = -1 -> 269
      [] x = 0  -> 500
      [] x = 1  -> 731
      [] x = 2  -> 881
      [] OTHER  -> 953

(* drivable_mask = (sigmoid(semantics[:, 1:2]) > threshold).float() *)
DrivableMaskGE(sem, thr, h, w) ==
    [b \in DOMAIN sem |-> [c \in Cells(h, w) |->
        IF Sigmoid(sem[b][1][c]) >= thr THEN 1 ELSE 0]]

DrivableMaskCh0(sem, thr, h, w) ==
    [b \in DOMAIN sem |-> [c \in Cells(h, w) |->
        IF Sigmoid(sem[b][0][c]) > thr THEN 1 ELSE 0]]

DrivableMask(sem, thr, h, w) ==
    [b \in DOMAIN sem |-> [c \in Cells(h, w) |->
        IF Sigmoid(sem[b][1][c]) > thr THEN 1 ELSE 0]]

(* non_drivable_mask = 1.0 - drivable_mask *)
NonDrivableMask(mask, h, w) ==
    [b \in DOMAIN mask |-> [c \in Cells(h, w) |-> 1 - mask[b][c]]]

-----------------------------------------------------------------------------
(* kornia.contrib.distance_transform(image, kernel_size = 3, h = 0.35).     *)
(* Each pass filters the current boundary image with the kernel            *)
(* exp(-hypot(dx, dy) / h) (replicate border), takes cdt = -h * log(.),    *)
(* turns log(0) = +inf into 0, and writes offset + cdt where cdt > 0.      *)
(* The result is 0 on the non-zero cells of the image and the (soft-min)   *)
(* distance to the nearest non-zero cell elsewhere.                        *)

OrthOffsets == {<<-1, 0>>, <<1, 0>>, <<0, -1>>, <<0, 1>>}
DiagOffsets == {<<-1, -1>>, <<-1, 1>>, <<1, -1>>, <<1, 1>>}

(* number of kernel taps in offs that read a 1 of the replicate-padded image *)
Taps(img, h, w, c, offs) ==
    Cardinality({o \in offs :
        img[<<Clamp(c[1] + o[1], 0, h - 1), Clamp(c[2] + o[2], 0, w - 1)>>] = 1})

(* -0.35 * ln(a * exp(-1/0.35) + d * exp(-sqrt(2)/0.35)) in milli-cells,   *)
(* a orthogonal and d diagonal taps; row a + 1, column d + 1.  The entry   *)
(* for a = d = 0 is nan_to_num(+inf, posinf = 0.0).                        *)
SoftMinMilli ==
    << <<   0, 1414, 1172, 1030, 929>>,
       <<1000,  907,  833,  772, 720>>,
       << 757,  708,  664,  625, 590>>,
       << 615,  581,  550,  522, 496>>,
       << 515,  489,  465,  442, 421>> >>

(* cdt of one cell.  A cell that is 1 has filter response >= 1, so its cdt  *)
(* is <= 0 and the mask (cdt > 0) leaves it out: 0 stands for that.        *)
Cdt(img, h, w, c) ==
    IF img[c] = 1 THEN 0
    ELSE SoftMinMilli[Taps(img, h, w, c, OrthOffsets) + 1]
                     [Taps(img, h, w, c, DiagOffsets) + 1]

CdtBatch(boundary, h, w) ==
    [b \in DOMAIN boundary |-> [c \in Cells(h, w) |-> Cdt(boundary[b], h, w, c)]]

(* mask.sum() == 0, the sum running over the whole batch *)
MaskSumZeroAny(cdt) == \E b \in DOMAIN cdt : \A c \in DOMAIN cdt[b] : cdt[b][c] <= 0

MaskSumZero(cdt) == \A b \in DOMAIN cdt : \A c \in DOMAIN cdt[b] : cdt[b][c] <= 0

(* offset = i * kernel_size // 2, in milli-cells *)
DTOffset(i) == ((i * 3) \div 2) * 1000

RECURSIVE DTLoop(_, _, _, _, _, _)
DTLoop(i, n_iters, boundary, acc, h, w) ==
    IF i >= n_iters THEN acc
    ELSE LET cdt == Eval(CdtBatch(boundary, h, w))
         IN  IF MaskSumZero(cdt) THEN acc
             ELSE DTLoop(i + 1, n_iters,
                    Eval([b \in DOMAIN boundary |-> [c \in Cells(h, w) |->
                        IF cdt[b][c] > 0 THEN 1 ELSE boundary[b][c]]]),
                    Eval([b \in DOMAIN boundary |-> [c \in Cells(h, w) |->
                        IF cdt[b][c] > 0 THEN acc[b][c] + DTOffset(i) + cdt[b][c]
                        ELSE acc[b][c]]]),
                    h, w)

distance_transform(image, h, w) ==
    DTLoop(0, Max(h, w), Eval(image),
           [b \in DOMAIN image |-> [c \in Cells(h, w) |-> 0]], h, w)


-----------------------------------------------------------------------------
(* compute_sdf *)

(* sdf = sdf * self.pixel_size - self.ego_radius *)
SdfValueMarginFirst(raw, ps, r) == (raw - r) * ps

SdfValue(raw, ps, r) == raw * ps - r

(* sdf = dist_to_boundary - dist_to_drivable, before scaling *)
RawField(mask, h, w) ==
    LET dist_to_boundary == Eval(distance_transform(mask, h, w))
        dist_to_drivable == Eval(distance_transform(NonDrivableMask(mask, h, w), h, w))
    IN  [b \in DOMAIN mask |-> [c \in Cells(h, w) |->
            dist_to_boundary[b][c] - dist_to_drivable[b][c]]]

(* the masks and the fused field of one call *)
SdfLocals(sem, thr, h, w) ==
    LET m == Eval(DrivableMask(sem, thr, h, w))
    IN  [drivable_mask |-> m,
         non_drivable_mask |-> NonDrivableMask(m, h, w),
         raw |-> RawField(m, h, w)]

ScaleField(raw, ps, r, h, w) ==
    [b \in DOMAIN raw |-> [c \in Cells(h, w) |-> SdfValue(raw[b][c], ps, r)]]

compute_sdf(sem, thr, ps, r, h, w) ==
    ScaleField(SdfLocals(sem, thr, h, w).raw, ps, r, h, w)

-----------------------------------------------------------------------------
(* get_gradients *)

(* the two kernels, times 8; conv2d is a cross-correlation *)
sobel_x == << <<-1, 0, 1>>, <<-2, 0, 2>>, <<-1, 0, 1>> >>
sobel_y == << <<-1, -2, -1>>, <<0, 0, 0>>, <<1, 2, 1>> >>

(* F.pad(sdf, (1, 1, 1, 1), mode = 'replicate'), read at padded index      *)
(* (r + 1, c + 1), r in -1 .. h, c in -1 .. w                              *)
Padded(img, h, w, r, c) == img[<<Clamp(r, 0, h - 1), Clamp(c, 0, w - 1)>>]

(* F.conv2d(sdf_padded, kernel) for one scene, times 8 *)
Conv2d(img, kernel, h, w) ==
    [c \in Cells(h, w) |->
        LET t(i, j) == kernel[i][j] * Padded(img, h, w, c[1] + i - 2, c[2] + j - 2)
        IN  t(1, 1) + t(1, 2) + t(1, 3) + t(2, 1) + t(2, 2) + t(2, 3)
          + t(3, 1) + t(3, 2) + t(3, 3)]

(* metric_to_grid.  A coordinate is a numerator over a stated denominator. *)
(* pixel_y = forward / pixel_size, over 2 * pixel_size                      *)
PixelY(forward, ps) == forward

(* pixel_x = lateral / pixel_size + W / 2.0, over 2 * pixel_size *)
PixelXNoCentre(lateral, ps, w) == lateral

PixelX(lateral, ps, w) == lateral + w * ps

(* norm = (pixel / (dim - 1)) * 2 - 1, over 2 * pixel_size * (dim - 1),     *)
(* then torch.clamp(norm, -1, 1)                                           *)
Norm(pixel, ps, dim) ==
    LET den == 2 * ps * (dim - 1)
    IN  Clamp(2 * pixel - den, -den, den)

(* grid_coords[..., 0] = norm_x, grid_coords[..., 1] = norm_y *)
metric_to_grid(pt, ps, h, w) ==
    <<Norm(PixelX(pt[2], ps, w), ps, w), Norm(PixelY(pt[1], ps), ps, h)>>

(* F.grid_sample(img, grid, align_corners = True, mode = 'bilinear',        *)
(* padding_mode = 'border') at one grid point.                             *)
(* Unnormalize: ix = ((x + 1) / 2) * (W - 1), over SampleDen; clip to the   *)
(* border; bilinear weights of the four neighbours, a neighbour outside    *)
(* the image contributing nothing.  The result is over SampleDen^2.        *)
SampleDen(ps) == 4 * ps

Unnormalize(norm, ps, dim) ==
    Clamp(norm + 2 * ps * (dim - 1), 0, (dim - 1) * SampleDen(ps))

GridSample(img, g, ps, h, w) ==
    LET den == SampleDen(ps)
        ix  == Unnormalize(g[1], ps, w)
        iy  == Unnormalize(g[2], ps, h)
        x0  == ix \div den
        y0  == iy \div den
        fx  == ix % den
        fy  == iy % den
        at(r, c) == IF r \in 0 .. h - 1 /\ c \in 0 .. w - 1 THEN img[<<r, c>>] ELSE 0
    IN    (den - fx) * (den - fy) * at(y0, x0)
        + fx * (den - fy) * at(y0, x0 + 1)
        + (den - fx) * fy * at(y0 + 1, x0)
        + fx * fy * at(y0 + 1, x0 + 1)

(* grad_metric_x = grad_y_sampled / pixel_size, grad_metric_y =             *)
(* grad_x_sampled / pixel_size; h_grad = cat([grad_metric_x, grad_metric_y])*)
(* Dividing by pixel_size quarter metres is multiplying by 4 / pixel_size. *)
MetricGradUnswapped(grad_x_sampled, grad_y_sampled, ps) ==
    <<grad_x_sampled * (4 \div ps), grad_y_sampled * (4 \div ps)>>

MetricGrad(grad_x_sampled, grad_y_sampled, ps) ==
    <<grad_y_sampled * (4 \div ps), grad_x_sampled * (4 \div ps)>>

(* grid_sampler's check: "expected grid and input to have same batch size" *)
SameBatchOrBroadcast(input, grid) ==
    Cardinality(DOMAIN input) = Cardinality(DOMAIN grid) \/ Cardinality(DOMAIN input) = 1

SameBatch(input, grid) == Cardinality(DOMAIN input) = Cardinality(DOMAIN grid)

(* The Sobel maps of every scene of the field *)
GradMaps(field, h, w) ==
    [x |-> [b \in DOMAIN field |-> Conv2d(field[b], sobel_x, h, w)],
     y |-> [b \in DOMAIN field |-> Conv2d(field[b], sobel_y, h, w)]]

(* The whole call: the maps are computed first, the first grid_sample      *)
(* raises on a batch mismatch, otherwise the samples are returned.         *)
get_gradients(field, tr, ps, h, w) ==
    LET maps == GradMaps(field, h, w)
        grid == [b \in DOMAIN tr |->
                    [n \in DOMAIN tr[b] |-> metric_to_grid(tr[b][n], ps, h, w)]]
        src(b) == IF b \in DOMAIN field THEN b ELSE 1
    IN  IF ~SameBatch(field, grid)
        THEN [raised |-> TRUE, maps |-> maps, val |-> <<>>, grad |-> <<>>]
        ELSE [raised |-> FALSE, maps |-> maps,
              val  |-> [b \in DOMAIN tr |-> [n \in DOMAIN tr[b] |->
                          GridSample(field[src(b)], grid[b][n], ps, h, w)]],
              grad |-> [b \in DOMAIN tr |-> [n \in DOMAIN tr[b] |->
                          MetricGrad(
                            GridSample(maps.x[src(b)], grid[b][n], ps, h, w),
                            GridSample(maps.y[src(b)], grid[b][n], ps, h, w), ps)]]]

-----------------------------------------------------------------------------
(* Inputs *)

MaxDim == 3      \* largest H and W of the scenes compute_sdf is run on
MaxField == 4    \* largest H and W of the fields get_gradients is run on alone

Logits == {-1, 0, 1}
Thresholds == {300, 500}
PixelSizes == {1, 2}
EgoRadii == {0, 10000}
Deltas == {0, 500}

(* A scene whose drivable channel is inL inside the rectangle and outL     *)
(* outside it; channel 0 is hot at one cell or nowhere.                    *)
RectScene(h, w, r0, r1, c0, c1, inL, outL, hot) ==
    [ch \in 0 .. 1 |-> [c \in Cells(h, w) |->
        IF ch = 1
        THEN IF c[1] \in r0 .. r1 /\ c[2] \in c0 .. c1 THEN inL ELSE outL
        ELSE IF c = hot THEN 1 ELSE -1]]

Unset ==
    /\ sdf = <<>> /\ sdf_wide = <<>> /\ sdf_single = <<>> /\ out_single = <<>>
    /\ out = <<>> /\ locals = <<>>

-----------------------------------------------------------------------------
(* Actions *)

(* sdf = barrier.compute_sdf(semantics, threshold) *)
ComputeSdf ==
    /\ pc = "input"
    /\ locals' = SdfLocals(semantics, threshold, H, W)
    /\ sdf' = ScaleField(locals'.raw, pixel_size, ego_radius, H, W)
    /\ pc' = "sdf"
    /\ UNCHANGED <<pixel_size, ego_radius, threshold, H, W, semantics, trajs, delta,
                   sdf_wide, sdf_single, out_single, out>>

(* SafetyBarrier(pixel_size, ego_radius + delta).compute_sdf(semantics, threshold) *)
ComputeSdfWide ==
    /\ pc = "sdf"
    /\ sdf_wide = <<>>
    /\ sdf_wide' = compute_sdf(semantics, threshold, pixel_size, ego_radius + delta, H, W)
    /\ UNCHANGED <<pixel_size, ego_radius, threshold, H, W, semantics, trajs, sdf, delta,
                   sdf_single, out_single, out, locals, pc>>

(* h_val, h_grad = barrier.get_gradients(sdf, trajs) *)
GetGradients ==
    /\ pc = "sdf"
    /\ out' = get_gradients(sdf, trajs, pixel_size, H, W)
    /\ pc' = IF out'.raised THEN "error" ELSE "done"
    /\ UNCHANGED <<pixel_size, ego_radius, threshold, H, W, semantics, trajs, sdf, delta,
                   sdf_wide, sdf_single, out_single, locals>>

(* The same two calls on the next scene alone, as a batch of one *)
RunSingle ==
    /\ pc = "done"
    /\ Len(sdf_single) < Len(semantics)
    /\ LET b == Len(sdf_single) + 1
           one == compute_sdf(<<semantics[b]>>, threshold, pixel_size, ego_radius, H, W)
       IN  /\ sdf_single' = Append(sdf_single, one[1])
           /\ out_single' = Append(out_single,
                                get_gradients(one, <<trajs[b]>>, pixel_size, H, W))
    /\ UNCHANGED <<pixel_size, ego_radius, threshold, H, W, semantics, trajs, sdf, delta,
                   sdf_wide, out, locals, pc>>

-----------------------------------------------------------------------------
(* compute_sdf on two scenes that share the drivable channel *)

InitSdf ==
    /\ pc = "input"
    /\ Unset
    /\ H \in 2 .. MaxDim
    /\ W \in 2 .. MaxDim
    /\ threshold \in Thresholds
    /\ pixel_size \in PixelSizes
    /\ ego_radius \in EgoRadii
    /\ delta \in Deltas
    /\ trajs = <<>>
    /\ \E r0 \in 0 .. H - 1, c0 \in 0 .. W - 1 :
       \E r1 \in r0 .. H - 1, c1 \in c0 .. W - 1 :
       \E inL \in Logits, outL \in Logits :
          semantics = <<RectScene(H, W, r0, r1, c0, c1, inL, outL, <<-1, -1>>),
                        RectScene(H, W, r0, r1, c0, c1, inL, outL, <<0, 0>>)>>

NextSdf == ComputeSdf \/ ComputeSdfWide

SpecSdf == InitSdf /\ [][NextSdf]_vars

-----------------------------------------------------------------------------
(* get_gradients on a field handed to it directly *)

RowSlopes == {0, 3}
ColSlopes == {0, -2}
Bumps == {0, 7}
FwdCoords == {-3, 0, 1, 2, 3, 4, 5, 7, 13}
LatCoords == {-9, -3, -1, 0, 1, 5}

(* k per row, m per column, a bump at cell (1, 1) *)
RampField(h, w, k, m, bump) ==
    [c \in Cells(h, w) |-> k * c[1] + m * c[2] + (IF c = <<1, 1>> THEN bump ELSE 0)]

(* The point with its grid index row = forward / pixel_size and            *)
(* col = lateral / pixel_size + W / 2 clamped to [0, H - 1] x [0, W - 1]   *)
ClampedPoint(pt, ps, h, w) ==
    <<Clamp(pt[1], 0, (h - 1) * 2 * ps),
      Clamp(pt[2] + w * ps, 0, (w - 1) * 2 * ps) - w * ps>>

InitSample ==
    /\ pc = "sdf"
    /\ sdf_wide = <<>> /\ sdf_single = <<>> /\ out_single = <<>>
    /\ out = <<>> /\ locals = <<>>
    /\ semantics = <<>>
    /\ threshold = 500
    /\ ego_radius = 0
    /\ delta = 0
    /\ H \in 2 .. MaxField
    /\ W \in 2 .. MaxField
    /\ pixel_size \in PixelSizes
    /\ \E k \in RowSlopes, m \in ColSlopes, bump \in Bumps, B1 \in 1 .. 2 :
          sdf = [b \in 1 .. B1 |->
                    IF b = 1 THEN RampField(H, W, k, m, bump)
                    ELSE RampField(H, W, m, k, 0)]
    /\ \E B2 \in 1 .. 2 :
          \/ trajs = [b \in 1 .. B2 |-> <<>>]
          \/ \E f \in FwdCoords, l \in LatCoords :
                trajs = [b \in 1 .. B2 |->
                    IF b = 1 THEN <<<<f, l>>, ClampedPoint(<<f, l>>, pixel_size, H, W)>>
                    ELSE <<ClampedPoint(<<f, l>>, pixel_size, H, W), <<f, l>>>>]

NextSample == GetGradients

SpecSample == InitSample /\ [][NextSample]_vars

-----------------------------------------------------------------------------
(* compute_sdf then get_gradients on one scene: a drivable rectangle       *)
(* sampled at two cell centres, or the fully drivable 64 x 64 grid         *)
(* sampled at the ego origin                                               *)

(* the metric point that lands on the centre of cell c *)
CentrePoint(c, ps, w) == <<c[1] * 2 * ps, c[2] * 2 * ps - w * ps>>

InitPipe ==
    /\ pc = "input"
    /\ Unset
    /\ threshold = 500
    /\ delta = 0
    /\ pixel_size \in PixelSizes
    /\ ego_radius \in EgoRadii
    /\ \/ /\ H \in 2 .. MaxDim
          /\ W \in 2 .. MaxDim
          /\ \E r0 \in 0 .. H - 1, c0 \in 0 .. W - 1 :
             \E r1 \in r0 .. H - 1, c1 \in c0 .. W - 1 :
                semantics = <<RectScene(H, W, r0, r1, c0, c1, 1, -1, <<0, 0>>)>>
          /\ \E p \in Cells(H, W), q \in Cells(H, W) :
                trajs = <<<<CentrePoint(p, pixel_size, W), CentrePoint(q, pixel_size, W)>>>>
       \/ /\ H = 64
          /\ W = 64
          /\ \E l \in {1, 2} :
                semantics = <<RectScene(H, W, 0, H - 1, 0, W - 1, l, l, <<0, 0>>)>>
          /\ trajs = <<<<<<0, 0>>>>>>

NextPipe == ComputeSdf \/ GetGradients

SpecPipe == InitPipe /\ [][NextPipe]_vars

-----------------------------------------------------------------------------
(* The two calls on a batch of two scenes, then on each scene alone *)

BatchPoints == {<<3, -1>>, <<13, 5>>}

(* a rectangle anchored at cell (0, 0), drivable inside or outside *)
CornerScene(h, w, r1, c1, inside) ==
    IF inside THEN RectScene(h, w, 0, r1, 0, c1, 1, -1, <<0, 0>>)
    ELSE RectScene(h, w, 0, r1, 0, c1, -1, 1, <<0, 0>>)

InitBatch ==
    /\ pc = "input"
    /\ Unset
    /\ threshold = 500
    /\ delta = 0
    /\ ego_radius = 10000
    /\ pixel_size \in PixelSizes
    /\ H \in 2 .. MaxDim
    /\ W \in 2 .. MaxDim
    /\ \E ra \in 0 .. H - 1, ca \in 0 .. W - 1, ia \in BOOLEAN :
       \E rb \in 0 .. H - 1, cb \in 0 .. W - 1 :
          semantics = <<CornerScene(H, W, ra, ca, ia), CornerScene(H, W, rb, cb, TRUE)>>
    /\ \E p \in BatchPoints : trajs = <<<<p>>, <<<<p[1] + 1, -p[2]>>>>>>

NextBatch == ComputeSdf \/ GetGradients \/ RunSingle

SpecBatch == InitBatch /\ [][NextBatch]_vars

-----------------------------------------------------------------------------
(* Reference notions the properties are stated with *)

Drivable(b, c) == Sigmoid(semantics[b][1][c]) > threshold

AllDrivable(b) == \A c \in Cells(H, W) : Drivable(b, c)

NoneDrivable(b) == \A c \in Cells(H, W) : ~Drivable(b, c)

Mixed(b) == ~AllDrivable(b) /\ ~NoneDrivable(b)

Dist2(c, d) == (c[1] - d[1]) * (c[1] - d[1]) + (c[2] - d[2]) * (c[2] - d[2])

(* squared Euclidean distance, in cells, from c to the nearest non-drivable cell *)
BoundaryDist2(b, c) ==
    LET ds == {Dist2(c, d) : d \in {e \in Cells(H, W) : ~Drivable(b, e)}}
    IN  CHOOSE m \in ds : \A n \in ds : m <= n

(* that distance times pixel_size against ego_radius, both squared, in sdf units *)
ClearanceAbove(b, c) ==
    BoundaryDist2(b, c) * (1000 * pixel_size) * (1000 * pixel_size) > ego_radius * ego_radius

ClearanceBelow(b, c) ==
    BoundaryDist2(b, c) * (1000 * pixel_size) * (1000 * pixel_size) < ego_radius * ego_radius

-----------------------------------------------------------------------------
(* C1: on a mask with a drivable and a non-drivable cell, SDF(c) > 0 iff c  *)
(* is drivable with metric clearance above ego_radius, and SDF(c) < 0 iff  *)
(* c is non-drivable or drivable with metric clearance below ego_radius.   *)
C1_SignIffClearance ==
    pc # "input" =>
        \A b \in DOMAIN sdf : Mixed(b) =>
            \A c \in Cells(H, W) :
                /\ sdf[b][c] > 0 <=> (Drivable(b, c) /\ ClearanceAbove(b, c))
                /\ sdf[b][c] < 0 <=> (~Drivable(b, c) \/ ClearanceBelow(b, c))

(* C2: the raw fused field of a fully drivable mask is positive in every   *)
(* cell, that of a fully non-drivable mask negative in every cell.         *)
C2_DegenerateSign ==
    pc # "input" =>
        \A b \in DOMAIN sdf :
            /\ AllDrivable(b) => \A c \in Cells(H, W) : locals.raw[b][c] > 0
            /\ NoneDrivable(b) => \A c \in Cells(H, W) : locals.raw[b][c] < 0

(* C6: the field of the barrier built with ego_radius + delta is the field *)
(* of the barrier built with ego_radius minus delta, in every cell.        *)
C6_MarginShift ==
    sdf_wide # <<>> =>
        \A b \in DOMAIN sdf : \A c \in Cells(H, W) : sdf_wide[b][c] = sdf[b][c] - delta

C6_Witness ==
    /\ sdf_wide # <<>>
    /\ delta > 0 /\ ego_radius > 0 /\ pixel_size = 2
    /\ Mixed(1)

(* C7: a cell is in the drivable mask iff sigmoid(channel 1) > threshold   *)
(* (equality is non-drivable), the non-drivable mask is its complement,    *)
(* and scenes that agree on channel 1 get the same field.                  *)
C7_MaskRule ==
    pc # "input" =>
        /\ \A b \in DOMAIN sdf : \A c \in Cells(H, W) :
              /\ locals.drivable_mask[b][c] = (IF Drivable(b, c) THEN 1 ELSE 0)
              /\ locals.non_drivable_mask[b][c] \in {0, 1}
              /\ locals.drivable_mask[b][c] + locals.non_drivable_mask[b][c] = 1
        /\ \A b1, b2 \in DOMAIN sdf :
              semantics[b1][1] = semantics[b2][1] => sdf[b1] = sdf[b2]

C7_Witness ==
    /\ pc # "input"
    /\ \E c \in Cells(H, W) :
          /\ Sigmoid(semantics[1][1][c]) = threshold
          /\ locals.drivable_mask[1][c] = 0
    /\ Mixed(1)
    /\ semantics[1][0] # semantics[2][0]
    /\ semantics[1][1] = semantics[2][1]

-----------------------------------------------------------------------------
(* Reference notions for the sampled outputs *)

OutOfGrid(pt) == ClampedPoint(pt, pixel_size, H, W) # pt

(* row and column index of the point lie in [1, H - 2] x [1, W - 2] *)
InteriorPoint(pt) ==
    /\ 2 * pixel_size <= pt[1] /\ pt[1] <= (H - 2) * 2 * pixel_size
    /\ 2 * pixel_size <= pt[2] + W * pixel_size
    /\ pt[2] + W * pixel_size <= (W - 2) * 2 * pixel_size

(* (row r + 1) - (row r - 1) with weights 1, 2, 1 over the columns, and the *)
(* same across columns, on the edge-replicated field; 8 times the slope    *)
RowDifference(f, c) ==
    LET v(r, k) == f[<<Clamp(r, 0, H - 1), Clamp(k, 0, W - 1)>>]
    IN    v(c[1] + 1, c[2] - 1) + 2 * v(c[1] + 1, c[2]) + v(c[1] + 1, c[2] + 1)
        - v(c[1] - 1, c[2] - 1) - 2 * v(c[1] - 1, c[2]) - v(c[1] - 1, c[2] + 1)

ColDifference(f, c) ==
    LET v(r, k) == f[<<Clamp(r, 0, H - 1), Clamp(k, 0, W - 1)>>]
    IN    v(c[1] - 1, c[2] + 1) + 2 * v(c[1], c[2] + 1) + v(c[1] + 1, c[2] + 1)
        - v(c[1] - 1, c[2] - 1) - 2 * v(c[1], c[2] - 1) - v(c[1] + 1, c[2] - 1)

(* f grows by RowSlope(f) per row and is constant along the columns *)
RowSlope(f) == f[<<1, 0>>] - f[<<0, 0>>]

IsRowRamp(f) == \A c \in Cells(H, W) : f[c] = f[<<0, 0>>] + RowSlope(f) * c[1]

IsConstant(f) == \A c \in Cells(H, W) : f[c] = f[<<0, 0>>]

(* C4: a point whose grid index falls outside the grid gets the value and  *)
(* the gradient of the point clamped to the grid, and is never rejected.   *)
C4_Clamping ==
    /\ pc = "error" => Len(sdf) # Len(trajs)
    /\ pc = "done" =>
          \A b \in DOMAIN trajs : \A n, m \in DOMAIN trajs[b] :
              (/\ OutOfGrid(trajs[b][n])
               /\ trajs[b][m] = ClampedPoint(trajs[b][n], pixel_size, H, W))
              => /\ out.val[b][n] = out.val[b][m]
                 /\ out.grad[b][n] = out.grad[b][m]

C4_Witness ==
    /\ pc = "done"
    /\ \E n, m \in DOMAIN trajs[1] :
          /\ trajs[1][n][1] < 0
          /\ trajs[1][n][2] + W * pixel_size > (W - 1) * 2 * pixel_size
          /\ trajs[1][m] = ClampedPoint(trajs[1][n], pixel_size, H, W)
          /\ out.grad[1][n][1] # 0 /\ out.grad[1][n][2] # 0
          /\ out.val[1][n] # 0

(* C5 as stated: a batch mismatch is detected at call entry, before        *)
(* anything is computed, and nothing is returned.                          *)
C5_EntryShapeMismatch ==
    (pc \in {"done", "error"} /\ Len(sdf) # Len(trajs)) =>
        /\ pc = "error"
        /\ out.val = <<>> /\ out.grad = <<>>
        /\ out.maps = <<>>

(* C5 amended: a batch mismatch makes the call raise, from the first        *)
(* grid_sample, after the Sobel maps of the field were computed; no value  *)
(* or gradient is returned.                                                *)
C5_MismatchRaises ==
    (pc \in {"done", "error"} /\ Len(sdf) # Len(trajs)) =>
        /\ pc = "error"
        /\ out.raised
        /\ out.val = <<>> /\ out.grad = <<>>
        /\ DOMAIN out.maps.x = DOMAIN sdf /\ DOMAIN out.maps.y = DOMAIN sdf

C5_Witness ==
    /\ pc = "error"
    /\ Len(sdf) = 1 /\ Len(trajs) = 2
    /\ Len(trajs[1]) > 0

(* C10: component 0 samples the row-difference map, component 1 the        *)
(* column-difference map, both divided by pixel_size; a row ramp of slope  *)
(* k has gradient (k / pixel_size, 0) at interior samples, a constant      *)
(* field (0, 0) at every sample.                                           *)
C10_GradientAxes ==
    pc = "done" =>
        \A b \in DOMAIN trajs :
            /\ \A c \in Cells(H, W) :
                  /\ out.maps.y[b][c] = RowDifference(sdf[b], c)
                  /\ out.maps.x[b][c] = ColDifference(sdf[b], c)
            /\ \A n \in DOMAIN trajs[b] :
                  LET g == metric_to_grid(trajs[b][n], pixel_size, H, W)
                      perm == 4 \div pixel_size
                      den2 == SampleDen(pixel_size) * SampleDen(pixel_size)
                  IN  /\ out.grad[b][n][1]
                           = GridSample(out.maps.y[b], g, pixel_size, H, W) * perm
                      /\ out.grad[b][n][2]
                           = GridSample(out.maps.x[b], g, pixel_size, H, W) * perm
                      /\ (IsRowRamp(sdf[b]) /\ InteriorPoint(trajs[b][n])) =>
                            out.grad[b][n] = <<8 * den2 * RowSlope(sdf[b]) * perm, 0>>
                      /\ IsConstant(sdf[b]) => out.grad[b][n] = <<0, 0>>

C10_Witness ==
    /\ pc = "done"
    /\ IsRowRamp(sdf[1]) /\ RowSlope(sdf[1]) # 0
    /\ pixel_size = 2
    /\ \E n \in DOMAIN trajs[1] :
          /\ InteriorPoint(trajs[1][n])
          /\ trajs[1][n][1] % (2 * pixel_size) # 0
          /\ out.grad[1][n][1] # 0

-----------------------------------------------------------------------------
(* Reference notions for the pipeline properties *)

(* the drivable cells form a rectangle and some cell is non-drivable *)
ConvexDrivable(b) ==
    /\ Mixed(b)
    /\ \A c, d \in Cells(H, W) : (Drivable(b, c) /\ Drivable(b, d)) =>
          \A e \in Cells(H, W) :
              (/\ e[1] >= (IF c[1] < d[1] THEN c[1] ELSE d[1])
               /\ e[1] <= Max(c[1], d[1])
               /\ e[2] >= (IF c[2] < d[2] THEN c[2] ELSE d[2])
               /\ e[2] <= Max(c[2], d[2]))
              => Drivable(b, e)

AtCellCentre(pt) ==
    /\ pt[1] % (2 * pixel_size) = 0
    /\ (pt[2] + W * pixel_size) % (2 * pixel_size) = 0

CellOf(pt) == <<pt[1] \div (2 * pixel_size), (pt[2] + W * pixel_size) \div (2 * pixel_size)>>

(* C3: on the fully drivable 64 x 64 grid with pixel_size 0.25, the value  *)
(* sampled at (forward 0, lateral 0) is (H / 2) * 0.25 - ego_radius, to    *)
(* within one cell.                                                        *)
C3_AxisConvention ==
    (/\ pc = "done"
     /\ H = 64 /\ W = 64 /\ pixel_size = 1
     /\ AllDrivable(1)
     /\ trajs[1] = <<<<0, 0>>>>)
    => LET den2 == SampleDen(pixel_size) * SampleDen(pixel_size)
           want == (H \div 2) * 1000 * pixel_size - ego_radius
       IN  Abs(out.val[1][1] - den2 * want) <= den2 * 1000 * pixel_size

(* C9: in a convex drivable region, of two samples at drivable cells the   *)
(* one strictly further from the boundary has the value that is no smaller.*)
C9_BoundaryMonotone ==
    (pc = "done" /\ ConvexDrivable(1)) =>
        \A n, m \in DOMAIN trajs[1] :
            LET p == trajs[1][n]
                q == trajs[1][m]
            IN  (/\ AtCellCentre(p) /\ AtCellCentre(q)
                 /\ CellOf(p) \in Cells(H, W) /\ CellOf(q) \in Cells(H, W)
                 /\ Drivable(1, CellOf(p)) /\ Drivable(1, CellOf(q))
                 /\ BoundaryDist2(1, CellOf(q)) > BoundaryDist2(1, CellOf(p)))
                => out.val[1][m] >= out.val[1][n]

(* C8: each scene of the batch of two gets the field, the values and the   *)
(* gradients it gets when the two calls are run on it alone.               *)
C8_BatchIndependence ==
    \A b \in DOMAIN sdf_single :
        /\ sdf_single[b] = sdf[b]
        /\ ~out_single[b].raised
        /\ out_single[b].val[1] = out.val[b]
        /\ out_single[b].grad[1] = out.grad[b]

C8_Witness ==
    /\ Len(sdf_single) = 2
    /\ AllDrivable(1) /\ Mixed(2)
    /\ \E c \in Cells(H, W) : locals.raw[2][c] > 1500
    /\ out.val[1] # out.val[2]
    /\ out.grad[2][1] # <<0, 0>>

=============================================================================
